---- MODULE Spec2Model ----
(***************************************************************************)
(* A model of omukazu/ecifr, reproduce_evaluation_data:                    *)
(*   src/first_party_modules/ssplit.py  the bracket-aware sentence splitter*)
(*   src/scraping.py                    Page (rectangles, boxes) and       *)
(*                                      get_qualitative_information        *)
(*                                                                         *)
(* Characters are modelled as short ASCII tokens:                          *)
(*   "FPO" "FPC"  full-width parentheses      "HPO" "HPC"  ASCII ( and )   *)
(*   "CBO" "CBC"  corner brackets             "DQO" "DQC"  curly quotes    *)
(*   "omega" "psi" "chi" "phi" "upsilon" "tau" "sigma" "rho"               *)
(*                the Greek letters ssplit.py uses as placeholders         *)
(*   "KUTEN"      the full-width period       "NL"  the newline            *)
(*   "a"          any other character                                      *)
(* A string is a sequence of such tokens.                                  *)
(***************************************************************************)
EXTENDS Integers, Sequences, FiniteSets, TLC

VARIABLES
    pc,         \* which call has been made: "input" before it, "done" after
    text,       \* ssplit: the argument
    balanced,   \* ssplit: the local _balanced of _ssplit_regex
    sentences,  \* ssplit: the returned list
    rects,      \* Page.aggregate_rects: the argument
    boxes,      \* Page.aggregate_rects: the returned list
    width,      \* Page.width
    height,     \* Page.height
    layout,     \* Page.extract_rects: the argument
    extracted,  \* Page.extract_rects: the returned list
    pages,      \* get_qualitative_information: the Page objects of the argument
    given,      \* the same pages as they were when the call was made
    sections,   \* get_qualitative_information: the returned dict
    text_lines, \* Page.text_lines
    lt_lines,   \* Page.aggregate_text_lines: the argument
    aggregated  \* Page.aggregate_text_lines: the returned list

splitVars == <<text, balanced, sentences>>

boxVars == <<rects, boxes>>

extractVars == <<width, height, layout, extracted>>

sectionVars == <<pages, given, sections>>

lineVars == <<text_lines>>

glyphVars == <<lt_lines, aggregated>>

vars == <<pc, splitVars, boxVars, extractVars, sectionVars, lineVars, glyphVars>>

(***************************************************************************)
(* Bounds                                                                  *)
(***************************************************************************)
MaxLen == 4

MaxRects == 3

MaxCoord == 2

MaxSide == 6

MaxPages == 3

(***************************************************************************)
(* General helpers                                                         *)
(***************************************************************************)
SetMax(S) == CHOOSE m \in S : \A x \in S : x <= m

SetMin(S) == CHOOSE m \in S : \A x \in S : m <= x

RECURSIVE Concat(_)
Concat(ss) == IF ss = <<>> THEN <<>> ELSE Head(ss) \o Concat(Tail(ss))

\* str.count for a one-character needle
Count(s, c) == Cardinality({i \in 1..Len(s) : s[i] = c})

(***************************************************************************)
(* ssplit.py                                                               *)
(***************************************************************************)
Openers == {"FPO", "HPO", "CBO", "DQO"}

Closers == {"FPC", "HPC", "CBC", "DQC"}

Placeholders == {"omega", "psi", "chi", "phi", "upsilon", "tau", "sigma", "rho"}

PARENTHESIS2ALTERNATIVE(c) ==
    CASE c = "FPO" -> "omega"
      [] c = "HPO" -> "psi"
      [] c = "CBO" -> "chi"
      [] c = "DQO" -> "phi"
      [] c = "FPC" -> "upsilon"
      [] c = "HPC" -> "tau"
      [] c = "CBC" -> "sigma"
      [] c = "DQC" -> "rho"

\* str.translate(ALTERNATIVE2PARENTHESIS) on one character
ALTERNATIVE2PARENTHESIS(c) ==
    CASE c = "omega"   -> "FPO"
      [] c = "psi"     -> "HPO"
      [] c = "chi"     -> "CBO"
      [] c = "phi"     -> "DQO"
      [] c = "upsilon" -> "FPC"
      [] c = "tau"     -> "HPC"
      [] c = "sigma"   -> "CBC"
      [] c = "rho"     -> "DQC"
      [] OTHER         -> c

\* the condition of _balance's inner loop: opener `value` is closed by `char`
Compatible(value, char) ==
    \/ value = "FPO" /\ char \in {"FPC", "HPC"}
    \/ value = "HPO" /\ char \in {"FPC", "HPC"}
    \/ value = "CBO" /\ char = "CBC"
    \/ value = "DQO" /\ char = "DQC"

(* The scan of _balance from index idx on.  stack is the set of keys of the   *)
(* dict `stack` (its values are t[key]); bal is the list `balanced`; pairs    *)
(* records each deletion `del stack[key]` as <<key, idx>>.                    *)
RECURSIVE BalanceScan(_, _, _, _, _)
BalanceScan(t, idx, stack, bal, pairs) ==
    IF idx > Len(t) THEN [stack |-> stack, balanced |-> bal, pairs |-> pairs]
    ELSE LET char == t[idx] IN
         IF char \in Openers
         THEN BalanceScan(t, idx + 1, stack \cup {idx}, bal, pairs)
         ELSE IF char \in Closers
         THEN IF stack # {}
              THEN LET matching == {k \in stack : Compatible(t[k], char)} IN
                   IF matching # {}
                   THEN BalanceScan(t, idx + 1, stack \ {SetMax(matching)}, bal,
                                    pairs \cup {<<SetMax(matching), idx>>})
                   ELSE BalanceScan(t, idx + 1, stack, bal, pairs)
              ELSE BalanceScan(t, idx + 1, stack,
                               [bal EXCEPT ![idx] = PARENTHESIS2ALTERNATIVE(char)],
                               pairs)
         ELSE BalanceScan(t, idx + 1, stack, bal, pairs)

\* _balance(text)
Balance(t) ==
    LET r == BalanceScan(t, 1, {}, t, {}) IN
    [i \in 1..Len(t) |->
        IF i \in r.stack THEN PARENTHESIS2ALTERNATIVE(t[i]) ELSE r.balanced[i]]

\* the pairs (opener index, closer index) that _balance matched
MatchedPairs(t) == BalanceScan(t, 1, {}, t, {}).pairs

\* str.split("\n")
RECURSIVE SplitLines(_)
SplitLines(s) ==
    LET nls == {i \in 1..Len(s) : s[i] = "NL"} IN
    IF nls = {} THEN <<s>>
    ELSE LET i == SetMin(nls) IN
         <<SubSeq(s, 1, i - 1)>> \o SplitLines(SubSeq(s, i + 1, Len(s)))

(* re.findall("[^KUTEN]*KUTEN|[^KUTEN]*$", s) from position p on.  The first *)
(* alternative matches up to the next period; when there is none the second   *)
(* takes the rest of the string (a newline included), and the scan ends with  *)
(* the empty match at the end of the string.                                  *)
RECURSIVE FindAll(_, _)
FindAll(s, p) ==
    LET periods == {i \in p..Len(s) : s[i] = "KUTEN"} IN
    IF periods # {}
    THEN LET q == SetMin(periods) IN <<SubSeq(s, p, q)>> \o FindAll(s, q + 1)
    ELSE IF p <= Len(s)
         THEN <<SubSeq(s, p, Len(s)), <<>> >>
         ELSE << <<>> >>

\* the loop of _ssplit_regex over the lines
RECURSIVE Candidates(_)
Candidates(lines) ==
    IF lines = <<>> THEN <<>>
    ELSE FindAll(Head(lines) \o <<"NL">>, 1) \o Candidates(Tail(lines))

\* re.match("^KUTEN$", c): $ also matches before a final newline
IsSinglePeriod(c) == c = <<"KUTEN">> \/ c = <<"KUTEN", "NL">>

RECURSIVE MergeSinglePeriodsLoop(_, _)
MergeSinglePeriodsLoop(cands, merged) ==
    IF cands = <<>> THEN merged
    ELSE LET c == Head(cands) IN
         IF IsSinglePeriod(c)
         THEN MergeSinglePeriodsLoop(Tail(cands),
                  [merged EXCEPT ![Len(merged)] = merged[Len(merged)] \o c])
         ELSE MergeSinglePeriodsLoop(Tail(cands), Append(merged, c))

\* _merge_single_periods
MergeSinglePeriods(cands) ==
    LET merged == MergeSinglePeriodsLoop(cands, << <<>> >>) IN
    IF merged[1] = <<>> THEN Tail(merged) ELSE merged

\* LevelsZero with `or` in place of `and`
LevelsZeroOr(pl, ql) == pl = 0 \/ ql = 0

\* the test `parenthesis_level == 0 and quotation_level == 0`
LevelsZero(pl, ql) == pl = 0 /\ ql = 0

(* The while loop of _merge_parenthesis: cands is sentence_candidates, pl and *)
(* ql the two levels, acc is _sentence_candidate, merged is merged_sentences. *)
RECURSIVE MergeParenthesisLoop(_, _, _, _, _)
MergeParenthesisLoop(cands, pl, ql, acc, merged) ==
    IF cands = <<>>
    THEN IF acc # <<>> THEN Append(merged, acc) ELSE merged
    ELSE LET c   == Head(cands)
             pl2 == pl + Count(c, "FPO") + Count(c, "HPO")
                       - (Count(c, "FPC") + Count(c, "HPC"))
             ql2 == ql + Count(c, "CBO") + Count(c, "DQO")
                       - (Count(c, "CBC") + Count(c, "DQC"))
             nls == {i \in 1..Len(c) : c[i] = "NL"}
         IN
         IF LevelsZero(pl2, ql2)
         THEN MergeParenthesisLoop(Tail(cands), pl2, ql2, <<>>, Append(merged, acc \o c))
         ELSE IF nls # {}
              THEN LET i    == SetMin(nls)
                       rest == SubSeq(c, i + 1, Len(c))
                   IN MergeParenthesisLoop(<<rest>> \o Tail(cands), 0, 0, <<>>,
                                           Append(merged, acc \o SubSeq(c, 1, i - 1)))
              ELSE MergeParenthesisLoop(Tail(cands), pl2, ql2, acc \o c, merged)

\* _merge_parenthesis
MergeParenthesis(cands) == MergeParenthesisLoop(cands, 0, 0, <<>>, <<>>)

\* _merge_sentence_candidates
MergeSentenceCandidates(cands) == MergeParenthesis(MergeSinglePeriods(cands))

\* _clean_up_sentence_candidates
CleanUpSentenceCandidates(cands) ==
    LET kept == SelectSeq(cands, LAMBDA c : c # <<>>) IN
    [k \in 1..Len(kept) |->
        [i \in 1..Len(kept[k]) |-> ALTERNATIVE2PARENTHESIS(kept[k][i])]]

\* _ssplit_regex, given the balanced text
SsplitRegex(bal) ==
    CleanUpSentenceCandidates(MergeSentenceCandidates(Candidates(SplitLines(bal))))

(***************************************************************************)
(* The sentence splitter as a state machine: one call of ssplit(text)      *)
(***************************************************************************)
SplitAlphabet ==
    Openers \cup Closers \cup {"KUTEN", "NL", "a", "omega", "sigma"}

Texts == UNION {[1..n -> SplitAlphabet] : n \in 0..MaxLen}

\* the components a specification does not exercise stay as constructed
IdleSplit == text = <<>> /\ balanced = <<>> /\ sentences = <<>>

IdleBoxes == rects = <<>> /\ boxes = <<>>

IdleExtract == width = 0 /\ height = 0 /\ layout = [kind |-> "other"] /\ extracted = <<>>

NoSections == [precede |-> <<>>, qualitative_information |-> <<>>, succeed |-> <<>>]

IdleSections == pages = <<>> /\ given = <<>> /\ sections = NoSections

IdleLines == text_lines = <<>>

IdleGlyphs == lt_lines = <<>> /\ aggregated = <<>>

InitSplit ==
    /\ pc = "input"
    /\ text \in Texts
    /\ balanced = <<>>
    /\ sentences = <<>>
    /\ IdleBoxes
    /\ IdleExtract
    /\ IdleSections
    /\ IdleLines
    /\ IdleGlyphs

\* ssplit(text) with model="regex"
Ssplit ==
    /\ pc = "input"
    /\ balanced' = Balance(text)
    /\ sentences' = SsplitRegex(Balance(text))
    /\ pc' = "done"
    /\ UNCHANGED <<text, boxVars, extractVars, sectionVars, lineVars, glyphVars>>

NextSplit == Ssplit

SpecSplit == InitSplit /\ [][NextSplit]_vars

(***************************************************************************)
(* Claims about the sentence splitter                                      *)
(***************************************************************************)
Whitespace == {"NL"}

AllChars == SplitAlphabet \cup Placeholders

NewlineFree(t) == \A i \in 1..Len(t) : t[i] # "NL"

(* The matching rule of the specification, applied to s[1..n]: a closer      *)
(* matches the nearest unmatched compatible opener to its left.  open is the *)
(* set of openers still unmatched, stray the closers that found no opener.   *)
RECURSIVE RuleScan(_, _, _, _, _)
RuleScan(s, idx, n, open, stray) ==
    IF idx > n THEN [open |-> open, stray |-> stray]
    ELSE IF s[idx] \in Openers
         THEN RuleScan(s, idx + 1, n, open \cup {idx}, stray)
    ELSE IF s[idx] \in Closers
         THEN LET m == {k \in open : Compatible(s[k], s[idx])} IN
              IF m # {}
              THEN RuleScan(s, idx + 1, n, open \ {SetMax(m)}, stray)
              ELSE RuleScan(s, idx + 1, n, open, stray \cup {idx})
    ELSE RuleScan(s, idx + 1, n, open, stray)

\* the positions of s that hold an unmatched bracket or quote
UnmatchedPositions(s) ==
    LET r == RuleScan(s, 1, Len(s), {}, {}) IN r.open \cup r.stray

\* C1: after ssplit's balance pass, re-scanning the balanced text with the
\* matching rule finds no closer without an opener and no opener without a
\* closer.
C1_BalancedHasNoUnmatched ==
    pc = "done" => UnmatchedPositions(balanced) = {}

\* C2: the concatenation of the sentences returned by ssplit(text) has the
\* same number of occurrences of every non-whitespace character as text.
C2_SameNonWhitespaceMultiset ==
    pc = "done" =>
        \A c \in AllChars \ Whitespace :
            Count(Concat(sentences), c) = Count(text, c)

\* the lengths of the prefixes of the returned list: where ssplit cut the text
Boundaries(ss) == {Len(Concat(SubSeq(ss, 1, k))) : k \in 1..Len(ss)}

\* C8: for a newline-free text, no sentence returned by ssplit ends at a
\* full-width period that lies between an opener and the closer the balance
\* pass matched with it.
C8_NoBoundaryInsideMatchedPair ==
    (pc = "done" /\ NewlineFree(text)) =>
        \A b \in Boundaries(sentences) :
            (b <= Len(text) /\ text[b] = "KUTEN") =>
                ~ \E pr \in MatchedPairs(text) : pr[1] < b /\ b < pr[2]

\* the periods of t that lie outside all brackets under the matching rule
TopLevelPeriods(t) ==
    {i \in 1..Len(t) : t[i] = "KUTEN" /\ RuleScan(t, 1, i, {}, {}).open = {}}

\* t cut after each of its top-level periods, from position p on
RECURSIVE RunsFrom(_, _)
RunsFrom(t, p) ==
    LET cuts == {i \in TopLevelPeriods(t) : i >= p} IN
    IF cuts = {}
    THEN IF p <= Len(t) THEN <<SubSeq(t, p, Len(t))>> ELSE <<>>
    ELSE <<SubSeq(t, p, SetMin(cuts))>> \o RunsFrom(t, SetMin(cuts) + 1)

Runs(t) == RunsFrom(t, 1)

(* A run: it ends in a period outside all brackets, holds no other period    *)
(* outside brackets, and its brackets are balanced, but for a single stray   *)
(* closer it may start with.                                                 *)
GoodRun(r) ==
    /\ Len(r) >= 1
    /\ r[Len(r)] = "KUTEN"
    /\ LET body == IF r[1] \in Closers THEN Tail(r) ELSE r IN
       /\ UnmatchedPositions(body) = {}
       /\ TopLevelPeriods(body) = {Len(body)}

\* the texts C3 is about
InRunDomain(t) ==
    /\ NewlineFree(t)
    /\ Len(t) >= 1
    /\ \A k \in 1..Len(Runs(t)) : GoodRun(Runs(t)[k])

\* no run but the first is the period alone
NoLaterLonePeriod(t) ==
    \A k \in 2..Len(Runs(t)) : Runs(t)[k] # <<"KUTEN">>

\* each character of each run as str.translate leaves it
Translated(rs) ==
    [k \in 1..Len(rs) |-> [i \in 1..Len(rs[k]) |-> ALTERNATIVE2PARENTHESIS(rs[k][i])]]

\* C3 as stated: for a newline-free text made of k >= 1 runs, ssplit(text)
\* returns exactly the list of those k runs, in order, and no other element.
C3_ReturnsExactlyTheRuns ==
    (pc = "done" /\ InRunDomain(text)) => sentences = Runs(text)

\* C3 as amended: for a newline-free text made of k >= 1 runs, none of which
\* after the first is the period alone, ssplit(text) returns k + 1 elements:
\* the k runs in order, each as the clean-up translation leaves it, and then
\* one element that holds only the newline _ssplit_regex appended to the line.
C3_ReturnsRunsThenNewline ==
    (pc = "done" /\ InRunDomain(text) /\ NoLaterLonePeriod(text)) =>
        sentences = Translated(Runs(text)) \o << <<"NL">> >>

\* C3 witness: ssplit has returned for a text of two runs, the first of which
\* starts with a stray closer.
C3_Witness ==
    /\ pc = "done"
    /\ InRunDomain(text)
    /\ NoLaterLonePeriod(text)
    /\ Len(Runs(text)) = 2
    /\ Runs(text)[1][1] \in Closers
    /\ sentences = Runs(text) \o << <<"NL">> >>

(***************************************************************************)
(* scraping.py: Page.curve2rect, Page.extract_rects, Page.aggregate_rects  *)
(*                                                                         *)
(* A rectangle is <<x0, y0, x1, y1>>.  The coordinates pdfminer gives are  *)
(* floats; the model gives them in half units, so that h stands for h/2.   *)
(***************************************************************************)

\* Python's round(h / 2): halves go to the even neighbour
PyRoundHalf(h) ==
    IF h % 2 = 0 THEN h \div 2
    ELSE LET k == (h - 1) \div 2 IN IF k % 2 = 0 THEN k ELSE k + 1

\* Page.curve2rect: a plain LTCurve by its points, a subclass by its corners
Curve2Rect(curve) ==
    IF curve.kind = "LTCurve"
    THEN LET xs == {curve.pts[i][1] : i \in 1..Len(curve.pts)}
             ys == {curve.pts[i][2] : i \in 1..Len(curve.pts)}
         IN <<PyRoundHalf(SetMin(xs)), PyRoundHalf(SetMin(ys)),
              PyRoundHalf(SetMax(xs)), PyRoundHalf(SetMax(ys))>>
    ELSE <<PyRoundHalf(curve.bbox[1]), PyRoundHalf(curve.bbox[2]),
           PyRoundHalf(curve.bbox[3]), PyRoundHalf(curve.bbox[4])>>

\* KeepRect with `and` in place of `or`: kept only when small in both directions
KeepRectBoth(rect, w, h) ==
    6 * (rect[3] - rect[1]) < 5 * w /\ 6 * (rect[4] - rect[2]) < 5 * h

\* the test of extract_rects: rect[2] - rect[0] < width * 5 / 6 or
\* rect[3] - rect[1] < height * 5 / 6
KeepRect(rect, w, h) ==
    6 * (rect[3] - rect[1]) < 5 * w \/ 6 * (rect[4] - rect[2]) < 5 * h

IsCurve(node) == node.kind \in {"LTCurve", "LTRect"}

\* Page.extract_rects(layout) on a page of width w and height h
RECURSIVE ExtractRects(_, _, _)
RECURSIVE ExtractRectsChildren(_, _, _)
ExtractRects(node, w, h) ==
    IF IsCurve(node)
    THEN IF KeepRect(Curve2Rect(node), w, h) THEN <<Curve2Rect(node)>> ELSE <<>>
    ELSE IF node.kind = "LTContainer"
         THEN ExtractRectsChildren(node.children, w, h)
         ELSE <<>>

ExtractRectsChildren(children, w, h) ==
    IF children = <<>> THEN <<>>
    ELSE ExtractRects(Head(children), w, h) \o ExtractRectsChildren(Tail(children), w, h)

\* y2xs[y] after the first loop of aggregate_rects
Y2xs(rs, y) ==
    UNION {{rs[i][1], rs[i][3]} : i \in {j \in 1..Len(rs) : rs[j][2] <= y /\ y <= rs[j][4]}}

\* the filter of aggregate_rects: both ranges of a and b intersect
Overlap(a, b) ==
    /\ (IF a[1] >= b[1] THEN a[1] ELSE b[1]) <= (IF a[3] <= b[3] THEN a[3] ELSE b[3])
    /\ (IF a[2] >= b[2] THEN a[2] ELSE b[2]) <= (IF a[4] <= b[4] THEN a[4] ELSE b[4])

\* one round of the second loop of aggregate_rects, for rect
AggregateStep(bs, rect, rs) ==
    IF Cardinality(Y2xs(rs, PyRoundHalf(rect[2] + rect[4]))) <= 2
    THEN bs
    ELSE LET appended   == Append(bs, rect)
             overlapped == SelectSeq(appended, LAMBDA b : Overlap(rect, b))
             others     == SelectSeq(appended,
                               LAMBDA b : \A k \in 1..Len(overlapped) : overlapped[k] # b)
             members    == {overlapped[k] : k \in 1..Len(overlapped)}
         IN Append(others, <<SetMin({b[1] : b \in members}), SetMin({b[2] : b \in members}),
                             SetMax({b[3] : b \in members}), SetMax({b[4] : b \in members})>>)

RECURSIVE AggregateLoop(_, _, _)
AggregateLoop(rs, i, bs) ==
    IF i > Len(rs) THEN bs
    ELSE AggregateLoop(rs, i + 1, AggregateStep(bs, rs[i], rs))

\* Page.aggregate_rects(rects)
AggregateRects(rs) == AggregateLoop(rs, 1, <<>>)

(***************************************************************************)
(* Page.aggregate_rects as a state machine: one call on a list of rects    *)
(***************************************************************************)
RectSet ==
    {r \in (0..MaxCoord) \X (0..MaxCoord) \X (0..MaxCoord) \X (0..MaxCoord) :
        r[1] <= r[3] /\ r[2] <= r[4]}

RectLists == UNION {[1..n -> RectSet] : n \in 0..MaxRects}

InitBoxes ==
    /\ pc = "input"
    /\ rects \in RectLists
    /\ boxes = <<>>
    /\ IdleSplit
    /\ IdleExtract
    /\ IdleSections
    /\ IdleLines
    /\ IdleGlyphs

AggregateRectsCall ==
    /\ pc = "input"
    /\ boxes' = AggregateRects(rects)
    /\ pc' = "done"
    /\ UNCHANGED <<rects, splitVars, extractVars, sectionVars, lineVars, glyphVars>>

NextBoxes == AggregateRectsCall

SpecBoxes == InitBoxes /\ [][NextBoxes]_vars

\* C4: the list returned by Page.aggregate_rects holds no two distinct boxes
\* whose x-ranges and y-ranges both intersect.
C4_NoTwoBoxesOverlap ==
    pc = "done" =>
        \A i, j \in 1..Len(boxes) :
            boxes[i] # boxes[j] => ~Overlap(boxes[i], boxes[j])

IndexPermutations(n) == {f \in [1..n -> 1..n] : \A i, j \in 1..n : f[i] = f[j] => i = j}

\* C5: Page.aggregate_rects returns the same set of boxes for every
\* permutation of its list of candidate rectangles.
C5_OrderIndependent ==
    pc = "done" =>
        \A f \in IndexPermutations(Len(rects)) :
            LET permuted == [i \in 1..Len(rects) |-> rects[f[i]]]
                result   == AggregateRects(permuted)
            IN {result[k] : k \in 1..Len(result)} = {boxes[k] : k \in 1..Len(boxes)}

(***************************************************************************)
(* Page.extract_rects as a state machine: one call on a layout tree        *)
(***************************************************************************)
\* raw coordinates, in half units: two near the origin, five near the far edge
HalfCoords == {0, 3} \cup ((2 * MaxSide - 4)..(2 * MaxSide))

Points == HalfCoords \X HalfCoords

PlainCurves == {[kind |-> "LTCurve", pts |-> <<p, q>>] : p \in Points, q \in Points}

RectCurves ==
    {[kind |-> "LTRect", bbox |-> b] :
        b \in {c \in HalfCoords \X HalfCoords \X HalfCoords \X HalfCoords :
                   c[1] <= c[3] /\ c[2] <= c[4]}}

Curves == PlainCurves \cup RectCurves

Other == [kind |-> "other"]

Container(children) == [kind |-> "LTContainer", children |-> children]

\* a small frame and a frame around the whole page
FixedCurves ==
    {[kind |-> "LTRect", bbox |-> <<0, 0, 6, 6>>],
     [kind |-> "LTRect", bbox |-> <<0, 0, 2 * MaxSide, 2 * MaxSide>>]}

Layouts ==
    {Other, Container(<<>>)}
    \cup Curves
    \cup {Container(<<c>>) : c \in Curves}
    \cup {Container(<<Other, Container(<<c>>)>>) : c \in Curves}
    \cup {Container(<<c, Container(<<d>>)>>) : c \in Curves, d \in FixedCurves}

\* page.mediabox: (width, height)
PageSizes == {<<MaxSide, MaxSide>>, <<MaxSide, MaxSide - 1>>}

InitExtract ==
    /\ pc = "input"
    /\ \E size \in PageSizes : width = size[1] /\ height = size[2]
    /\ layout \in Layouts
    /\ extracted = <<>>
    /\ IdleSplit
    /\ IdleBoxes
    /\ IdleSections
    /\ IdleLines
    /\ IdleGlyphs

ExtractRectsCall ==
    /\ pc = "input"
    /\ extracted' = ExtractRects(layout, width, height)
    /\ pc' = "done"
    /\ UNCHANGED <<width, height, layout, splitVars, boxVars, sectionVars, lineVars, glyphVars>>

NextExtract == ExtractRectsCall

SpecExtract == InitExtract /\ [][NextExtract]_vars

\* the bounding rectangles of all curves of a layout tree, in traversal order
RECURSIVE CurveRectsOf(_)
RECURSIVE CurveRectsOfChildren(_)
CurveRectsOf(node) ==
    IF IsCurve(node) THEN <<Curve2Rect(node)>>
    ELSE IF node.kind = "LTContainer" THEN CurveRectsOfChildren(node.children)
    ELSE <<>>

CurveRectsOfChildren(children) ==
    IF children = <<>> THEN <<>>
    ELSE CurveRectsOf(Head(children)) \o CurveRectsOfChildren(Tail(children))

SpansWidth(r) == 6 * (r[3] - r[1]) >= 5 * width

SpansHeight(r) == 6 * (r[4] - r[2]) >= 5 * height

\* C10 as stated: a curve rectangle that spans at least 5/6 of the page's width
\* or at least 5/6 of its height is never returned by Page.extract_rects, and
\* every other curve rectangle is returned.
C10_DiscardsWidthOrHeight ==
    pc = "done" =>
        \A k \in 1..Len(CurveRectsOf(layout)) :
            LET r == CurveRectsOf(layout)[k] IN
            (SpansWidth(r) \/ SpansHeight(r)) <=>
                ~ \E n \in 1..Len(extracted) : extracted[n] = r

\* C10 as amended: Page.extract_rects returns, in traversal order, the
\* rectangle of every curve except those that span at least 5/6 of the page's
\* width and also at least 5/6 of its height.
C10_DiscardsWidthAndHeight ==
    pc = "done" =>
        extracted = SelectSeq(CurveRectsOf(layout),
                              LAMBDA r : ~(SpansWidth(r) /\ SpansHeight(r)))

\* C10 witness: extract_rects has returned a rectangle that spans 5/6 of the
\* page's width but not of its height, and has discarded another curve.
C10_Witness ==
    /\ pc = "done"
    /\ \E n \in 1..Len(extracted) :
           SpansWidth(extracted[n]) /\ ~SpansHeight(extracted[n])
    /\ Len(extracted) < Len(CurveRectsOf(layout))

(***************************************************************************)
(* scraping.py: get_qualitative_information                                *)
(*                                                                         *)
(* A page is [text, text_lines]; a text line is its "text", a sequence of  *)
(* characters.  The characters of the fixed phrases are named by their     *)
(* readings; "x" is any other character.  Offsets are 0-based, as in the   *)
(* code.                                                                   *)
(***************************************************************************)
TocMarker == <<"moku", "ji">>

Queries ==
    << <<"zai", "sei", "jou", "tai", "ni", "kan", "su", "ru">>,
       <<"zai", "sei", "jou", "tai", "no">>,
       <<"shou", "rai", "yo", "soku", "jyou", "hou", "ni", "kan", "su", "ru">>,
       <<"gyou", "seki", "yo", "sou", "ni", "kan", "su", "ru">>,
       <<"kon", "go", "no", "mi", "too", "shi">> >>

FirstPageThreshold == 150

\* s[a:] and s[:b] of Python, for 0 <= a and 0 <= b
SliceFrom(s, a) == IF a >= Len(s) THEN <<>> ELSE SubSeq(s, a + 1, Len(s))

SliceTo(s, b) == IF b >= Len(s) THEN s ELSE SubSeq(s, 1, b)

\* str.find(query): the least offset at which query occurs in t, or -1
Find(t, query) ==
    LET at == {i \in 0..(Len(t) - Len(query)) : SubSeq(t, i + 1, i + Len(query)) = query}
    IN IF at = {} THEN -1 ELSE SetMin(at)

\* the first loop: the index of the first page holding the marker, else 1
TocIdx(ps) ==
    LET hits == {i \in 0..(Len(ps) - 1) : Find(ps[i + 1].text, TocMarker) >= 0}
    IN IF hits = {} THEN 1 ELSE SetMin(hits)

\* ExceedsThreshold with >= in place of >: the offset 150 itself is accepted
ExceedsThresholdGeq(char_idx) == char_idx >= FirstPageThreshold

\* the test `char_idx > 150`
ExceedsThreshold(char_idx) == char_idx > FirstPageThreshold

\* the body of the loop over the queries, for one query on the page at idx:
\* the offset at which flag is set, or -1 when it is not
AcceptedOffset(t, query, idx) ==
    LET char_idx == Find(t, query) IN
    IF char_idx < 0 THEN -1
    ELSE IF idx = 0
         THEN IF ExceedsThreshold(char_idx) THEN char_idx
              ELSE LET appendix == Find(SliceFrom(t, char_idx + Len(query)), query) IN
                   IF appendix >= 0 THEN char_idx + Len(query) + appendix ELSE -1
         ELSE char_idx

\* the loop over the queries on one page: it breaks at the first accepted one
RECURSIVE QueryLoop(_, _, _)
QueryLoop(t, idx, qs) ==
    IF qs = <<>> THEN -1
    ELSE IF AcceptedOffset(t, Head(qs), idx) >= 0
         THEN AcceptedOffset(t, Head(qs), idx)
         ELSE QueryLoop(t, idx, Tail(qs))

\* the loop over the scanned pages: where flag is first set, or idx = -1
RECURSIVE PageLoop(_, _)
PageLoop(scanned, idx) ==
    IF idx >= Len(scanned) THEN [idx |-> -1, char_idx |-> -1]
    ELSE IF QueryLoop(scanned[idx + 1].text, idx, Queries) >= 0
         THEN [idx |-> idx, char_idx |-> QueryLoop(scanned[idx + 1].text, idx, Queries)]
         ELSE PageLoop(scanned, idx + 1)

\* char_idx2text_line_idx: for each character of the lines, its line's index
RECURSIVE Char2TextLineIdx(_, _)
Char2TextLineIdx(lines, text_line_idx) ==
    IF lines = <<>> THEN <<>>
    ELSE [i \in 1..Len(Head(lines)) |-> text_line_idx]
         \o Char2TextLineIdx(Tail(lines), text_line_idx + 1)

\* SucceedPages with pages[idx:] in place of pages[idx + 1:]
SucceedPagesFromIdx(sub_page, scanned, idx) == <<sub_page>> \o SliceFrom(scanned, idx)

\* [sub_page] + pages[idx + 1:]
SucceedPages(sub_page, scanned, idx) == <<sub_page>> \o SliceFrom(scanned, idx + 1)

(* get_qualitative_information(ps): the dict it returns and the Page objects *)
(* of its argument as the call leaves them.  `page` is an element of the     *)
(* argument and is assigned to in place; sub_page is a deep copy.            *)
GetQualitativeInformation(ps) ==
    LET toc_idx == TocIdx(ps)
        precede == SliceTo(ps, toc_idx + 1)
        scanned == SliceFrom(ps, toc_idx + 1)
        hit     == PageLoop(scanned, 0)
    IN
    IF hit.idx < 0
    THEN [sections |-> [precede |-> precede,
                        qualitative_information |-> scanned,
                        succeed |-> <<>>],
          pages |-> ps]
    ELSE LET old           == scanned[hit.idx + 1]
             text_line_idx == Char2TextLineIdx(old.text_lines, 0)[hit.char_idx + 1]
             page          == [text       |-> SliceTo(old.text, hit.char_idx),
                               text_lines |-> SliceTo(old.text_lines, text_line_idx)]
             sub_page      == [text       |-> SliceFrom(old.text, hit.char_idx),
                               text_lines |-> SliceFrom(old.text_lines, text_line_idx)]
         IN [sections |-> [precede |-> precede,
                           qualitative_information |->
                               SliceTo(scanned, hit.idx) \o <<page>>,
                           succeed |-> SucceedPages(sub_page, scanned, hit.idx)],
             pages |-> [ps EXCEPT ![toc_idx + 1 + hit.idx + 1] = page]]

(***************************************************************************)
(* get_qualitative_information as a state machine: one call on a document  *)
(***************************************************************************)
Filler(n) == [i \in 1..n |-> "x"]

\* Page.__init__: text is the concatenation of the lines' texts
MakePage(lines) == [text |-> Concat(lines), text_lines |-> lines]

\* the pages documents are made of
PagePalette ==
    {MakePage(<<>>),
     MakePage(<<Filler(1)>>),
     MakePage(<<Filler(1), TocMarker>>),
     MakePage(<<Queries[5]>>),
     MakePage(<<Queries[5], Filler(1) \o Queries[5]>>),
     MakePage(<<Filler(FirstPageThreshold), Queries[5]>>),
     MakePage(<<Filler(FirstPageThreshold), Filler(1), Queries[5]>>),
     MakePage(<<Queries[5], Filler(1) \o Queries[2], Filler(1)>>),
     MakePage(<<Filler(FirstPageThreshold), Filler(1), Queries[4], Queries[1]>>),
     MakePage(<<Filler(1), Queries[3] \o Filler(1)>>)}

Documents == UNION {[1..n -> PagePalette] : n \in 0..MaxPages}

InitSections ==
    /\ pc = "input"
    /\ pages \in Documents
    /\ given = pages
    /\ sections = NoSections
    /\ IdleSplit
    /\ IdleBoxes
    /\ IdleExtract
    /\ IdleLines
    /\ IdleGlyphs

GetQualitativeInformationCall ==
    /\ pc = "input"
    /\ sections' = GetQualitativeInformation(pages).sections
    /\ pages' = GetQualitativeInformation(pages).pages
    /\ pc' = "done"
    /\ UNCHANGED <<given, splitVars, boxVars, extractVars, lineVars, glyphVars>>

NextSections == GetQualitativeInformationCall

SpecSections == InitSections /\ [][NextSections]_vars

(***************************************************************************)
(* Claims about get_qualitative_information                                *)
(***************************************************************************)
\* the three partitions read in order
Partitioned ==
    sections.precede \o sections.qualitative_information \o sections.succeed

\* all text lines of a sequence of pages, in order
RECURSIVE AllLines(_)
AllLines(ps) ==
    IF ps = <<>> THEN <<>> ELSE Head(ps).text_lines \o AllLines(Tail(ps))

\* the call split a page
WasSplit == sections.succeed # <<>>

\* C6: the three partitions, read in the order precede, qualitative_information,
\* succeed, cover the document exactly once: their text lines are the text
\* lines of the given pages in order, every unsplit page is in exactly one
\* partition, and at most one page is split, into the last page of
\* qualitative_information and the first page of succeed, whose line lists
\* concatenate to the line list of the page.
C6_PartitionsCoverDocument ==
    pc = "done" =>
        /\ AllLines(Partitioned) = AllLines(given)
        /\ IF ~WasSplit
           THEN Partitioned = given
           ELSE LET k    == Len(sections.precede) + Len(sections.qualitative_information)
                    head == sections.qualitative_information[Len(sections.qualitative_information)]
                    tail == sections.succeed[1]
                IN /\ sections.qualitative_information # <<>>
                   /\ Len(Partitioned) = Len(given) + 1
                   /\ SubSeq(Partitioned, 1, k - 1) = SubSeq(given, 1, k - 1)
                   /\ SubSeq(Partitioned, k + 2, Len(Partitioned)) = SubSeq(given, k + 1, Len(given))
                   /\ head.text_lines \o tail.text_lines = given[k].text_lines
                   /\ head.text \o tail.text = given[k].text

\* C6 witness: the call has split a page in the middle of its line list, with
\* an unsplit page before it in qualitative_information.
C6_Witness ==
    /\ pc = "done"
    /\ WasSplit
    /\ Len(sections.qualitative_information) >= 2
    /\ sections.succeed[1].text_lines # <<>>
    /\ sections.qualitative_information[Len(sections.qualitative_information)].text_lines # <<>>

\* C7: get_qualitative_information leaves its input unchanged: after the call
\* every page of the input list has the text and the line list it had before.
C7_InputUnchanged ==
    pc = "done" => pages = given

\* the offsets at which query occurs in t
Occurrences(t, query) ==
    {i \in 0..(Len(t) - Len(query)) : SubSeq(t, i + 1, i + Len(query)) = query}

\* the first-page rule for one phrase: the offsets (none or one) at which the
\* phrase is accepted on a page
AcceptedAt(t, query, first) ==
    LET occ == Occurrences(t, query) IN
    IF occ = {} THEN {}
    ELSE IF ~first \/ SetMin(occ) > 150 THEN {SetMin(occ)}
    ELSE LET later == {i \in occ : i >= SetMin(occ) + Len(query)} IN
         IF later = {} THEN {} ELSE {SetMin(later)}

\* the pages scanned: those after the table-of-contents page
ScannedGiven == SliceFrom(given, TocIdx(given) + 1)

\* the phrases (by their place in the list) accepted on scanned page j
AcceptedQueries(j) ==
    {q \in 1..Len(Queries) : AcceptedAt(ScannedGiven[j].text, Queries[q], j = 1) # {}}

\* the scanned pages on which some phrase is accepted
AcceptingPages == {j \in 1..Len(ScannedGiven) : AcceptedQueries(j) # {}}

\* what the call did, given the offset at which the first accepting page is cut
SplitIsAt(j, offset) ==
    /\ Len(sections.qualitative_information) = j
    /\ SubSeq(sections.qualitative_information, 1, j - 1) = SubSeq(ScannedGiven, 1, j - 1)
    /\ sections.qualitative_information[j].text = SliceTo(ScannedGiven[j].text, offset)
    /\ Len(sections.succeed) = Len(ScannedGiven) - j + 1
    /\ sections.succeed[1].text = SliceFrom(ScannedGiven[j].text, offset)
    /\ SubSeq(sections.succeed, 2, Len(sections.succeed))
           = SubSeq(ScannedGiven, j + 1, Len(ScannedGiven))

NothingSplit ==
    /\ sections.qualitative_information = ScannedGiven
    /\ sections.succeed = <<>>

\* C9 as stated: the page that is split is the first scanned page on which a
\* phrase is accepted under the first-page rule, the split point is the first
\* of the accepted occurrences of any phrase on that page, and no later page is
\* split.
C9_SplitAtFirstOccurrence ==
    pc = "done" =>
        IF AcceptingPages = {} THEN NothingSplit
        ELSE LET j == SetMin(AcceptingPages) IN
             SplitIsAt(j, SetMin(UNION {AcceptedAt(ScannedGiven[j].text, Queries[q], j = 1) :
                                           q \in AcceptedQueries(j)}))

\* C9 as amended: the page that is split is the first scanned page on which a
\* phrase is accepted under the first-page rule, the split point is the
\* accepted occurrence of the phrase that comes first in the fixed list among
\* those accepted on that page, and no later page is split.
C9_SplitAtFirstListedPhrase ==
    pc = "done" =>
        IF AcceptingPages = {} THEN NothingSplit
        ELSE LET j == SetMin(AcceptingPages)
                 q == SetMin(AcceptedQueries(j))
             IN SplitIsAt(j, SetMin(AcceptedAt(ScannedGiven[j].text, Queries[q], j = 1)))

\* C9 witness: the call has split the first scanned page at the second
\* occurrence of a phrase whose first occurrence is within the first 150
\* characters, and a page follows it in succeed.
C9_Witness ==
    /\ pc = "done"
    /\ WasSplit
    /\ Len(sections.qualitative_information) = 1
    /\ Len(sections.succeed) >= 2
    /\ \E q \in 1..Len(Queries) :
           /\ Occurrences(ScannedGiven[1].text, Queries[q]) # {}
           /\ Len(sections.qualitative_information[1].text)
                  > SetMin(Occurrences(ScannedGiven[1].text, Queries[q]))
           /\ Len(sections.qualitative_information[1].text)
                  \in Occurrences(ScannedGiven[1].text, Queries[q])

(***************************************************************************)
(* scraping.py: Page.update_text_lines                                     *)
(*                                                                         *)
(* A glyph (pdfminer's LTChar) is a record with its decoded text and its   *)
(* corners x0, y0, x1, y1 in half units; a line of Page.text_lines is a    *)
(* record with the keys of the dict, "text" and "chars", to which the call *)
(* adds "exclude" and "line_break".                                        *)
(***************************************************************************)

\* min_x0, min_y0, max_x1, max_y1 of update_text_lines: the rounded corners
LineBox(text_line) ==
    LET chars == text_line.chars
        idx   == 1..Len(chars)
    IN <<PyRoundHalf(SetMin({chars[k].x0 : k \in idx})),
         PyRoundHalf(SetMin({chars[k].y0 : k \in idx})),
         PyRoundHalf(SetMax({chars[k].x1 : k \in idx})),
         PyRoundHalf(SetMax({chars[k].y1 : k \in idx}))>>

\* the any(...) of update_text_lines over self.boxes
InSomeBox(bb, bs) ==
    \E k \in 1..Len(bs) :
        /\ bs[k][1] - 1 <= bb[1]
        /\ bb[3] <= bs[k][3] + 1
        /\ bs[k][2] - 1 <= bb[2]
        /\ bb[4] <= bs[k][4] + 1

\* the value update_text_lines gives text_line["exclude"] for line i (from 1):
\* the header test for i == 0, and only otherwise (elif) the footer test
Exclude(lines, i, bs, h) ==
    LET bb == LineBox(lines[i]) IN
    IF i = 1
    THEN InSomeBox(bb, bs) \/ 20 * bb[4] >= 19 * h
    ELSE IF i = Len(lines)
         THEN InSomeBox(bb, bs) \/ 20 * bb[2] <= h
         ELSE InSomeBox(bb, bs)

\* the value update_text_lines gives text_line["line_break"]
LineBreak(lines, i, w) ==
    LET chars == lines[i].chars IN
    6 * PyRoundHalf(chars[Len(chars)].x1) < 5 * w /\ i # Len(lines)

\* Page.update_text_lines: self.text_lines after the call
UpdateTextLines(lines, bs, w, h) ==
    [i \in 1..Len(lines) |->
        [text       |-> lines[i].text,
         chars      |-> lines[i].chars,
         exclude    |-> Exclude(lines, i, bs, h),
         line_break |-> LineBreak(lines, i, w)]]

(***************************************************************************)
(* Page.update_text_lines as a state machine: one call on a page that has  *)
(* its lines and the boxes aggregate_rects made of its rectangles          *)
(***************************************************************************)
MaxLines == 2

Glyph(t, x0, y0, x1, y1) ==
    [kind |-> "LTChar", text |-> t, x0 |-> x0, y0 |-> y0, x1 |-> x1, y1 |-> y1]

\* a line as aggregate_text_lines builds it from its glyphs
MakeLine(chars) == [text |-> [k \in 1..Len(chars) |-> chars[k].text], chars |-> chars]

\* width and height of the page of this specification
LinePageSize == <<12, 20>>

(* Glyphs of a 12 x 20 page: in the body, inside the box <<2, 4, 8, 10>>,    *)
(* on and just past its 1-unit tolerance, with the top edge at 19 and at     *)
(* 18.5, with the bottom edge at 1 and at 1.5, spanning the page height, and *)
(* at the right margin.                                                      *)
LineGlyphs ==
    {Glyph("a",  6, 10,  8, 12), Glyph("b",  2,  6, 18, 22),
     Glyph("c",  1,  6, 18, 22), Glyph("d",  4, 36,  6, 38),
     Glyph("e",  4, 35,  6, 37), Glyph("f",  4,  2,  6,  4),
     Glyph("g",  4,  3,  6,  5), Glyph("h",  4,  2,  6, 38),
     Glyph("i", 20, 26, 22, 28)}

LinePalette ==
    {MakeLine(<<g>>) : g \in LineGlyphs}
        \cup {MakeLine(<<Glyph("a", 6, 10, 8, 12), g>>) :
                 g \in {Glyph("f", 4, 2, 6, 4), Glyph("d", 4, 36, 6, 38),
                        Glyph("i", 20, 26, 22, 28)}}

LinePages == UNION {[1..n -> LinePalette] : n \in 0..MaxLines}

\* the rectangles of the page: none, two that make the box <<2, 4, 8, 10>>,
\* two that make the box <<0, 0, 3, 2>> at the foot of the page
LineRectLists ==
    {<<>>,
     << <<2, 4, 8, 10>>, <<4, 4, 6, 10>> >>,
     << <<0, 0, 2, 2>>, <<2, 0, 3, 2>> >>}

InitLines ==
    /\ pc = "input"
    /\ width = LinePageSize[1]
    /\ height = LinePageSize[2]
    /\ layout = Other
    /\ extracted = <<>>
    /\ rects \in LineRectLists
    /\ boxes = AggregateRects(rects)
    /\ text_lines \in LinePages
    /\ IdleSplit
    /\ IdleSections
    /\ IdleGlyphs

UpdateTextLinesCall ==
    /\ pc = "input"
    /\ text_lines' = UpdateTextLines(text_lines, boxes, width, height)
    /\ pc' = "done"
    /\ UNCHANGED <<splitVars, boxVars, extractVars, sectionVars, glyphVars>>

NextLines == UpdateTextLinesCall

SpecLines == InitLines /\ [][NextLines]_vars

(***************************************************************************)
(* Claim about Page.update_text_lines                                      *)
(***************************************************************************)
\* the page's line i lies in some final box, 1 unit of tolerance on each side
WithinSomeBox(i) ==
    LET bb == LineBox(text_lines[i]) IN
    \E k \in 1..Len(boxes) :
        /\ boxes[k][1] - 1 <= bb[1] /\ bb[3] <= boxes[k][3] + 1
        /\ boxes[k][2] - 1 <= bb[2] /\ bb[4] <= boxes[k][4] + 1

\* the top edge of line i is at or above 95% of the page height
InHeaderBand(i) == 100 * LineBox(text_lines[i])[4] >= 95 * height

\* the bottom edge of line i is at or below 5% of the page height
InFooterBand(i) == 100 * LineBox(text_lines[i])[2] <= 5 * height

\* C11: after Page.update_text_lines every line of the page has exclude true
\* exactly when its bounding box is contained, within 1 unit on each side, in
\* some final box, or it is the first line of the page and its top edge is at
\* or above 95% of the page height, or it is the last line of the page and its
\* bottom edge is at or below 5% of the page height; the only line of a
\* one-line page is both the first and the last.  (The edges are those of the
\* rounded bounding box the method computes.)
C11_ExcludeIffBoxHeaderFooter ==
    pc = "done" =>
        \A i \in 1..Len(text_lines) :
            text_lines[i].exclude <=>
                \/ WithinSomeBox(i)
                \/ i = 1 /\ InHeaderBand(i)
                \/ i = Len(text_lines) /\ InFooterBand(i)

(***************************************************************************)
(* scraping.py: Page.valid, Page.aggregate_text_lines                      *)
(*                                                                         *)
(* An LTTextLine is a record with its children, LTChar glyphs and LTAnno   *)
(* objects; its y0 and height are those of the bounding box of its glyphs, *)
(* and a glyph's width is x1 - x0, as pdfminer sets them.  A dict is the   *)
(* sequence of its items [key, value] in insertion order.                  *)
(***************************************************************************)
\* the value of prev before the first round of either loop
NoPrev == 1000000

Abs(n) == IF n < 0 THEN 0 - n ELSE n

\* sorted(seq, key=...): stable, keys[i] is the key of seq[i]
StableSort(seq, keys) ==
    LET n == Len(seq)
        rank(i) == Cardinality({j \in 1..n :
                       keys[j] < keys[i] \/ (keys[j] = keys[i] /\ j < i)}) + 1
    IN [r \in 1..n |-> seq[CHOOSE i \in 1..n : rank(i) = r]]

DictHas(d, key) == \E k \in 1..Len(d) : d[k].key = key

\* d.pop(key): the value, and the dict without the item
DictGet(d, key) == d[CHOOSE k \in 1..Len(d) : d[k].key = key].value

DictDel(d, key) == SelectSeq(d, LAMBDA item : item.key # key)

\* d[key] = value: in place when the key is there, else a new last item
DictSet(d, key, value) ==
    IF DictHas(d, key)
    THEN [k \in 1..Len(d) |-> IF d[k].key = key THEN [key |-> key, value |-> value] ELSE d[k]]
    ELSE Append(d, [key |-> key, value |-> value])

\* len(char.get_text().strip()): "SP" is a space, "cid" a text of several characters
StripLen(t) == IF t = "SP" THEN 0 ELSE IF t = "cid" THEN 3 ELSE 1

\* Page.valid
Valid(char) ==
    char.kind = "LTChar" /\ StripLen(char.text) = 1 /\ char.x0 >= 0 /\ char.y0 >= 0

LTChars(text_line) == SelectSeq(text_line.children, LAMBDA c : c.kind = "LTChar")

\* text_line.y0
LineY0(text_line) ==
    LET cs == LTChars(text_line) IN SetMin({cs[k].y0 : k \in 1..Len(cs)})

\* text_line.height
LineHeight(text_line) ==
    LET cs == LTChars(text_line) IN SetMax({cs[k].y1 : k \in 1..Len(cs)}) - LineY0(text_line)

\* the first loop of aggregate_text_lines over the sorted lines: y2text_lines
RECURSIVE ClusterLoop(_, _, _)
ClusterLoop(sorted, y2text_lines, prev) ==
    IF sorted = <<>> THEN y2text_lines
    ELSE LET text_line == Head(sorted)
             y         == PyRoundHalf(0 - LineY0(text_line))
             within    == 8 * Abs(prev - y) <= LineHeight(text_line)
             popped    == IF within THEN DictGet(y2text_lines, prev) ELSE <<>>
             rest      == IF within THEN DictDel(y2text_lines, prev) ELSE y2text_lines
             old       == IF DictHas(rest, y) THEN DictGet(rest, y) ELSE <<>>
         IN ClusterLoop(Tail(sorted),
                        DictSet(rest, y, old \o popped \o <<text_line>>), y)

\* the glyph stored when char is within the tolerance of prev, with the
\* current glyph in place of the popped one
KeepCurrent(popped, char) == char

\* the glyph stored when char is within the tolerance of prev:
\* char = x2char.pop(prev)
KeepPopped(popped, char) == popped

\* the inner loop of aggregate_text_lines over the sorted glyphs: x2char
RECURSIVE SlotLoop(_, _, _)
SlotLoop(sorted, x2char, prev) ==
    IF sorted = <<>> THEN x2char
    ELSE LET char   == Head(sorted)
             x0     == PyRoundHalf(char.x0)
             within == 8 * Abs(prev - x0) <= char.x1 - char.x0
             stored == IF within THEN KeepPopped(DictGet(x2char, prev), char) ELSE char
             rest   == IF within THEN DictDel(x2char, prev) ELSE x2char
         IN SlotLoop(Tail(sorted), DictSet(rest, x0, stored), x0)

\* chain.from_iterable(clustered_text_lines)
RECURSIVE Chain(_)
Chain(clustered) ==
    IF clustered = <<>> THEN <<>> ELSE Head(clustered).children \o Chain(Tail(clustered))

\* the valid glyphs of a cluster, sorted by x0
SortedValid(clustered) ==
    LET chars == SelectSeq(Chain(clustered), Valid) IN
    StableSort(chars, [k \in 1..Len(chars) |-> chars[k].x0])

\* [*x2char.values()] for one cluster
ClusterChars(clustered) ==
    LET x2char == SlotLoop(SortedValid(clustered), <<>>, NoPrev) IN
    [k \in 1..Len(x2char) |-> x2char[k].value]

\* y2text_lines.values() of aggregate_text_lines(text_lines)
Clusters(lines) ==
    LET sorted == StableSort(lines, [k \in 1..Len(lines) |-> 0 - LineY0(lines[k])])
        y2text_lines == ClusterLoop(sorted, <<>>, NoPrev)
    IN [k \in 1..Len(y2text_lines) |-> y2text_lines[k].value]

\* the second loop of aggregate_text_lines: a line for each cluster with a glyph
RECURSIVE AggregateClusters(_)
AggregateClusters(clusters) ==
    IF clusters = <<>> THEN <<>>
    ELSE LET chars == ClusterChars(Head(clusters)) IN
         (IF Len(chars) >= 1 THEN <<MakeLine(chars)>> ELSE <<>>)
             \o AggregateClusters(Tail(clusters))

\* Page.aggregate_text_lines(text_lines)
AggregateTextLines(lines) == AggregateClusters(Clusters(lines))

(***************************************************************************)
(* Page.aggregate_text_lines as a state machine: one call on the list of   *)
(* LTTextLine objects of a page                                            *)
(***************************************************************************)
Anno == [kind |-> "LTAnno", text |-> "SP"]

LTTextLine(children) == [kind |-> "LTTextLine", children |-> children]

(* Glyphs 4 units wide and high: a, b, c one unit apart from each other, so  *)
(* that each is within the tolerance of the one before it and c is not of a;  *)
(* e one unit below b; n in b's place and 1 unit wide; r half a unit right of *)
(* a.                                                                         *)
SlotGlyphs ==
    {Glyph("a", 4, 20, 12, 28), Glyph("b", 6, 20, 14, 28), Glyph("c", 8, 20, 16, 28),
     Glyph("e", 6, 18, 14, 26), Glyph("n", 6, 20, 8, 28)}

(* Lines of one or two of these glyphs, and: a glyph three slots to the      *)
(* right, a glyph on a line five units below, the chain a, b, c, glyphs that  *)
(* round to a's and b's left edges, an LTAnno between two glyphs, and glyphs  *)
(* that are not valid (a space, a text of several characters, a negative     *)
(* coordinate).                                                              *)
LTTextLinePalette ==
    {LTTextLine(<<g>>) : g \in SlotGlyphs}
        \cup {LTTextLine(<<g, h>>) : g \in SlotGlyphs, h \in SlotGlyphs}
        \cup {LTTextLine(<<Glyph("d", 14, 20, 22, 28)>>),
              LTTextLine(<<Glyph("f", 4, 10, 12, 18)>>),
              LTTextLine(<<Glyph("a", 4, 20, 12, 28), Glyph("b", 6, 20, 14, 28),
                           Glyph("c", 8, 20, 16, 28)>>),
              LTTextLine(<<Glyph("r", 5, 20, 13, 28), Glyph("a", 4, 20, 12, 28)>>),
              LTTextLine(<<Glyph("r", 5, 20, 13, 28), Glyph("b", 6, 20, 14, 28)>>),
              LTTextLine(<<Glyph("a", 4, 20, 12, 28), Anno, Glyph("b", 6, 20, 14, 28)>>),
              LTTextLine(<<Glyph("a", 4, 20, 12, 28), Glyph("SP", 6, 20, 14, 28)>>),
              LTTextLine(<<Glyph("cid", 4, 20, 12, 28)>>),
              LTTextLine(<<Glyph("m", -2, 20, 6, 28), Glyph("b", 6, 20, 14, 28)>>)}

LTTextLineLists == UNION {[1..n -> LTTextLinePalette] : n \in 0..MaxLines}

InitGlyphs ==
    /\ pc = "input"
    /\ lt_lines \in LTTextLineLists
    /\ aggregated = <<>>
    /\ IdleSplit
    /\ IdleBoxes
    /\ IdleExtract
    /\ IdleSections
    /\ IdleLines

AggregateTextLinesCall ==
    /\ pc = "input"
    /\ aggregated' = AggregateTextLines(lt_lines)
    /\ pc' = "done"
    /\ UNCHANGED <<lt_lines, splitVars, boxVars, extractVars, sectionVars, lineVars>>

NextGlyphs == AggregateTextLinesCall

SpecGlyphs == InitGlyphs /\ [][NextGlyphs]_vars

(***************************************************************************)
(* Claim about Page.aggregate_text_lines                                   *)
(***************************************************************************)
\* glyph later, coming after glyph earlier from left to right, is within the
\* tolerance of it: the gap of the rounded left edges is at most a quarter of
\* its width
SameSlot(earlier, later) ==
    8 * Abs(PyRoundHalf(later.x0) - PyRoundHalf(earlier.x0)) <= later.x1 - later.x0

\* the clusters of the argument that hold a valid glyph, one per produced line
ProducingClusters == SelectSeq(Clusters(lt_lines), LAMBDA c : SortedValid(c) # <<>>)

\* the glyphs of `sorted` at the positions in idx, in order
RECURSIVE Pick(_, _, _)
Pick(sorted, idx, k) ==
    IF k > Len(sorted) THEN <<>>
    ELSE (IF k \in idx THEN <<sorted[k]>> ELSE <<>>) \o Pick(sorted, idx, k + 1)

\* the positions of the first glyph of each slot
SlotFirsts(sorted) ==
    {k \in 1..Len(sorted) : k = 1 \/ ~SameSlot(sorted[k - 1], sorted[k])}

\* the positions of the last glyph of each slot
SlotLasts(sorted) ==
    {k \in 1..Len(sorted) : k = Len(sorted) \/ ~SameSlot(sorted[k], sorted[k + 1])}

\* strictly increasing left edges, and no glyph in the slot of the one before
LeftToRight(chars) ==
    \A k \in 1..(Len(chars) - 1) :
        chars[k].x0 < chars[k + 1].x0 /\ ~SameSlot(chars[k], chars[k + 1])

\* C12: in every line Page.aggregate_text_lines produces the glyphs are in
\* strictly increasing horizontal order with no two glyphs in the same
\* character slot, and of the valid glyphs of the line that are, from left to
\* right, within the tolerance of the glyph before them, the one kept in the
\* slot is the later-encountered glyph, not the earlier one.
C12_LaterGlyphKept ==
    pc = "done" =>
        /\ Len(aggregated) = Len(ProducingClusters)
        /\ \A k \in 1..Len(aggregated) :
               LET sorted == SortedValid(ProducingClusters[k]) IN
               /\ LeftToRight(aggregated[k].chars)
               /\ aggregated[k].chars = Pick(sorted, SlotLasts(sorted), 1)

\* C12 as amended: in every line Page.aggregate_text_lines produces the glyphs
\* are in strictly increasing horizontal order with no two glyphs in the same
\* character slot, and of the valid glyphs of the line that are, from left to
\* right, within the tolerance of the glyph before them, the one kept in the
\* slot is the earliest-encountered glyph: every later one is ignored.
C12_EarlierGlyphKept ==
    pc = "done" =>
        /\ Len(aggregated) = Len(ProducingClusters)
        /\ \A k \in 1..Len(aggregated) :
               LET sorted == SortedValid(ProducingClusters[k]) IN
               /\ LeftToRight(aggregated[k].chars)
               /\ aggregated[k].chars = Pick(sorted, SlotFirsts(sorted), 1)

\* C12 witness: the call has produced a line of two or more glyphs from a
\* cluster in which a valid glyph was within the tolerance of a different
\* glyph before it.
C12_Witness ==
    /\ pc = "done"
    /\ \E k \in 1..Len(aggregated) :
           LET sorted == SortedValid(ProducingClusters[k]) IN
           /\ Len(aggregated[k].chars) >= 2
           /\ \E j \in 1..(Len(sorted) - 1) :
                  SameSlot(sorted[j], sorted[j + 1]) /\ sorted[j] # sorted[j + 1]

====
